---- MODULE Spec2Model ----
(***************************************************************************)
(* Model of the bandwidth-hero proxy core: src/src/proxy.js (decompress,   *)
(* compressionMethods, makeHttp2Request, makeRequest,                      *)
(* makeCloudscraperRequest, proxy) and the sender src/src/compress.js.     *)
(*                                                                         *)
(* Spec      : one request handled by proxy(req, res), every suspension    *)
(*             point of the async handler being one action.                *)
(* SpecCodec : the transport codec functions applied to bounded payloads.  *)
(***************************************************************************)
EXTENDS Integers, Sequences, FiniteSets, TLC

VARIABLES
    \* ---- proxy(req, res) ----
    req,            \* the inbound request: x-forwarded-proto, URL scheme, accept-encoding
    pc,             \* where the async handler proxy() is suspended
    primaryStatus,  \* status the origin gave to the primary fetch (0: none / transport error)
    originResponse, \* the value bound to originResponse (proxy.js:194)
    trace,          \* the calls proxy has made so far, in order
    resHeaders,     \* headers set on res
    sent,           \* payload handed to the compress / bypass sender
    chosen,         \* Content-Encoding set by lines 216-227 ("" while they have not run)
    inflight,       \* fetches of this request that were issued and have not completed
    \* ---- makeCloudscraperRequest(config, retries, redirectCount) ----
    chainSt,        \* "idle" | "inflight" | "waiting" | "resolved" | "rejected" | "lost"
    retries,        \* parameter retries of the innermost call
    redirectCount,  \* parameter redirectCount of the innermost call
    url,            \* config.url (an index: 0 is the requested URL)
    links,          \* how each nested call was chained to its caller: "await" | "resolve"
    attemptLog,     \* one record per cloudscraper.get call that has completed
    waits,          \* the setTimeout delays of retryRequest, in order
    chainErr,       \* the Error the innermost call rejected with ("" if none)
    \* ---- codec functions on their own ----
    cPc, cData, cEnc, cEncoded, cOut,
    \* ---- limiter (proxy.js:81-88) ----
    now,            \* the clock, in ms
    queue,          \* jobs handed to limiter.schedule and not yet released, oldest first
    dispatches,     \* the released jobs, in order, each with the time its axios call started
    jobs,           \* number of makeRequest calls so far
    \* ---- several requests at once ----
    conc,           \* per request: its makeCloudscraperRequest parameters and config.url
    actor,          \* the request whose attempt or timer took the last step (0: none)
    \* ---- getCompressionParams and sendImage on their own ----
    qPc,            \* "off" | "init" | "params" | "sent"
    qParam,         \* req.params.quality, a string
    qQuality,       \* compressionQuality
    qOrigin,        \* req.params.originSize
    qCompressed,    \* info.size
    qSaved          \* the x-bytes-saved header

proxyVars == <<req, pc, primaryStatus, originResponse, trace, resHeaders, sent, chosen>>
chainVars == <<chainSt, retries, redirectCount, url, links, attemptLog, waits, chainErr>>
codecVars == <<cPc, cData, cEnc, cEncoded, cOut>>
schedVars == <<now, queue, dispatches, jobs>>
concVars == <<conc, actor>>
qualVars == <<qPc, qParam, qQuality, qOrigin, qCompressed, qSaved>>
vars == <<proxyVars, chainVars, codecVars, inflight, schedVars, concVars, qualVars>>

\* compress has not been called
QualIdle ==
    /\ qPc = "off"
    /\ qParam = <<>>
    /\ qQuality = 0
    /\ qOrigin = 0
    /\ qCompressed = 0
    /\ qSaved = 0

\* the requests served at the same time
Reqs == {1, 2}

\* no makeRequest call yet
SchedIdle ==
    /\ now = 0
    /\ queue = <<>>
    /\ dispatches = <<>>
    /\ jobs = 0

\* no request has called makeCloudscraperRequest
NoChain(r) == [st |-> "idle", retries |-> 0, redirectCount |-> 0, url |-> 10 * r]

ConcIdle ==
    /\ conc = [r \in Reqs |-> NoChain(r)]
    /\ actor = 0

(***************************************************************************)
(* Bounds of the model.                                                    *)
(***************************************************************************)
MaxLen == 2      \* longest payload, in bytes
MaxByte == 1     \* byte values are 0..MaxByte

(***************************************************************************)
(* Byte buffers.  A Buffer is the plaintext bytes plus the stack of        *)
(* container formats wrapped around them, outermost first: zlib.gzipSync   *)
(* pushes "gzip", zlib.gunzip pops it and fails on anything else.          *)
(***************************************************************************)
Bytes == UNION {[1..n -> 0..MaxByte] : n \in 0..MaxLen}

Formats == {"gzip", "br", "deflate", "xz", "zstd"}

Wraps == {<<>>} \cup {<<f>> : f \in Formats}

Buffers == [wrap : Wraps, bytes : Bytes]

Raw(b) == [wrap |-> <<>>, bytes |-> b]

Wrap(f, d) == [d EXCEPT !.wrap = <<f>> \o @]

\* what a call that is not a Buffer-returning decompressor hands back
\* (e.g. Object.prototype.toString() gives the string "[object Object]")
NotABuffer == [wrap |-> <<"[object Object]">>, bytes |-> <<>>]

NoBuffer == [wrap |-> <<"none">>, bytes |-> <<>>]

\* settled promises / returned-or-thrown results
Fulfilled(v) == [ok |-> TRUE, val |-> v, err |-> ""]

Rejected(e) == [ok |-> FALSE, val |-> NoBuffer, err |-> e]

Unset == [ok |-> FALSE, val |-> NoBuffer, err |-> "unset"]

\* a library decoder of format f: strips the outermost container when it is f
Unwrap(fs, d) ==
    IF d.wrap # <<>> /\ Head(d.wrap) \in fs
    THEN Fulfilled([d EXCEPT !.wrap = Tail(@)])
    ELSE Rejected("DecodeError")

(***************************************************************************)
(* compressionMethods (proxy.js:18-22)                                     *)
(***************************************************************************)
CompressionKeys == {"gzip", "br", "deflate"}

\* compressionMethods[enc](data): a key the table does not hold is undefined,
\* and calling undefined throws a TypeError
compressionMethods(enc, data) ==
    IF enc \in CompressionKeys
    THEN Fulfilled(Wrap(enc, data))
    ELSE Rejected("TypeError")

(***************************************************************************)
(* decompress (proxy.js:25-54)                                             *)
(***************************************************************************)
DecompressorKeys == {"gzip", "br", "deflate", "lzma", "lzma2", "zstd"}

\* decompressors is an object literal: decompressors[encoding] also finds the
\* members it inherits from Object.prototype.  These are functions ...
InheritedFunctions == {"toString", "constructor", "valueOf", "hasOwnProperty"}

\* ... and __proto__ is Object.prototype itself: truthy, and not callable
InheritedObjects == {"__proto__"}

\* a mutant: the gzip entry calls inflate instead of gunzip
Decompressors_GzipInflates(encoding, data) ==
    CASE encoding = "gzip"    -> Unwrap({"deflate"}, data)
      [] encoding = "br"      -> Unwrap({"br"}, data)
      [] encoding = "deflate" -> Unwrap({"deflate"}, data)
      [] encoding = "lzma"    -> Unwrap({"xz"}, data)
      [] encoding = "lzma2"   -> Unwrap({"xz"}, data)
      [] encoding = "zstd"    -> Unwrap({"zstd"}, data)

\* the library routine behind each own key of decompressors; lzma.decompress
\* auto-detects the LZMA-family container
Decompressors(encoding, data) ==
    CASE encoding = "gzip"    -> Unwrap({"gzip"}, data)
      [] encoding = "br"      -> Unwrap({"br"}, data)
      [] encoding = "deflate" -> Unwrap({"deflate"}, data)
      [] encoding = "lzma"    -> Unwrap({"xz"}, data)
      [] encoding = "lzma2"   -> Unwrap({"xz"}, data)
      [] encoding = "zstd"    -> Unwrap({"zstd"}, data)

\* async function decompress(data, encoding): the promise it returns, settled
decompress(data, encoding) ==
    IF encoding \in DecompressorKeys
    THEN Decompressors(encoding, data)
    ELSE IF encoding \in InheritedFunctions
    THEN Fulfilled(NotABuffer)              \* decompressors.toString() etc.
    ELSE IF encoding \in InheritedObjects
    THEN Rejected("TypeError")              \* decompressors.__proto__ is not a function
    ELSE Fulfilled(data)                    \* console.warn; return data

(***************************************************************************)
(* Strings that the code searches are sequences of characters.             *)
(***************************************************************************)
S_br == <<"b", "r">>

S_gzip == <<"g", "z", "i", "p">>

S_deflate == <<"d", "e", "f", "l", "a", "t", "e">>

S_sep == <<",", " ">>

S_q0 == <<";", "q", "=", "0">>

\* String.prototype.includes
Includes(hay, needle) ==
    \E i \in 0..(Len(hay) - Len(needle)) :
        SubSeq(hay, i + 1, i + Len(needle)) = needle

(***************************************************************************)
(* The inbound request and what an origin can answer.                      *)
(***************************************************************************)
\* req.headers['accept-encoding'] || ''
AcceptHeaders ==
    {<<>>, S_gzip, S_deflate, S_gzip \o S_sep \o S_deflate \o S_sep \o S_br,
     S_gzip \o S_sep \o S_br \o S_q0}

Requests ==
    [proto : {"https", "http"},          \* req.headers['x-forwarded-proto']
     scheme : {"https:", "http2:"},      \* config.url.protocol
     accept : AcceptHeaders]

\* the plaintext the origin serves
SampleBody == [i \in 1..1 |-> 0]

\* (content-encoding header, body) pairs: no header, well-formed gzip and br,
\* a body that is not the gzip stream its header announces, an unknown scheme
OriginShapes ==
    {[encoding |-> "", data |-> Raw(SampleBody)],
     [encoding |-> "gzip", data |-> Wrap("gzip", Raw(SampleBody))],
     [encoding |-> "br", data |-> Wrap("br", Raw(SampleBody))],
     [encoding |-> "gzip", data |-> Raw(SampleBody)],
     [encoding |-> "unknown-scheme", data |-> Raw(SampleBody)]}

PlainShape == [encoding |-> "", data |-> Raw(SampleBody)]

\* the values originResponse can hold: an axios response (status, headers, data),
\* the {headers, data} object of makeCloudscraperRequest (status 0: it has no
\* status member), or the bare Buffer makeHttp2Request resolves with
AxiosResponse(status, shape) ==
    [kind |-> "response", status |-> status, encoding |-> shape.encoding, data |-> shape.data]

ScrapedResponse(shape) ==
    [kind |-> "response", status |-> 0, encoding |-> shape.encoding, data |-> shape.data]

Http2Buffer(shape) ==
    [kind |-> "buffer", status |-> 0, encoding |-> "", data |-> shape.data]

NoResponse == [kind |-> "none", status |-> 0, encoding |-> "", data |-> NoBuffer]

\* statuses the origin gives to the primary fetch (the body of an error status
\* is not looked at: it is the plain one)
PrimaryStatuses == {200, 403, 404, 500, 503}

\* headers of res, "" when not set
HeaderNames ==
    {"content-encoding", "strict-transport-security", "content-security-policy",
     "x-proxy", "access-control-allow-origin"}

NoHeaders == [h \in HeaderNames |-> ""]

(***************************************************************************)
(* makeCloudscraperRequest (proxy.js:91-170)                               *)
(***************************************************************************)
MAX_REDIRECTS == 5

DEFAULT_RETRIES == 3

\* what one cloudscraper.get call hands to its callback: status 0 is the
\* error argument (transport failure, timeout)
ChainOutcomes ==
    {[status |-> 0, location |-> FALSE, shape |-> PlainShape],
     [status |-> 403, location |-> FALSE, shape |-> PlainShape],
     [status |-> 302, location |-> TRUE, shape |-> PlainShape],
     [status |-> 302, location |-> FALSE, shape |-> PlainShape],
     [status |-> 503, location |-> FALSE, shape |-> PlainShape]}
        \cup {[status |-> 200, location |-> FALSE, shape |-> s] : s \in OriginShapes}

\* a mutant: the budget test is retries > 1
Callback_RetryOffByOne(o, r, rc) ==
    IF o.status = 0
    THEN IF r > 1 THEN "retry1000" ELSE "rejectFailed"
    ELSE IF o.status = 403
    THEN IF r > 1 THEN "retry2000" ELSE "rejectBlocked"
    ELSE IF o.status = 302 /\ rc < MAX_REDIRECTS /\ o.location
    THEN "redirect"
    ELSE IF rc >= MAX_REDIRECTS
    THEN "rejectRedirects"
    ELSE "resolve"

\* a mutant: a 403 is retried after the 1000 ms of the error branch
Callback_BlockedWaitsLikeError(o, r, rc) ==
    IF o.status = 0
    THEN IF r > 0 THEN "retry1000" ELSE "rejectFailed"
    ELSE IF o.status = 403
    THEN IF r > 0 THEN "retry1000" ELSE "rejectBlocked"
    ELSE IF o.status = 302 /\ rc < MAX_REDIRECTS /\ o.location
    THEN "redirect"
    ELSE IF rc >= MAX_REDIRECTS
    THEN "rejectRedirects"
    ELSE "resolve"

\* a mutant: the redirect test is redirectCount <= MAX_REDIRECTS
Callback_RedirectOffByOne(o, r, rc) ==
    IF o.status = 0
    THEN IF r > 0 THEN "retry1000" ELSE "rejectFailed"
    ELSE IF o.status = 403
    THEN IF r > 0 THEN "retry2000" ELSE "rejectBlocked"
    ELSE IF o.status = 302 /\ rc <= MAX_REDIRECTS /\ o.location
    THEN "redirect"
    ELSE IF rc > MAX_REDIRECTS
    THEN "rejectRedirects"
    ELSE "resolve"

\* the callback of cloudscraper.get (proxy.js:130-168), in the order of its tests,
\* for outcome o seen by the call with parameters retries = r, redirectCount = rc
Callback(o, r, rc) ==
    IF o.status = 0
    THEN IF r > 0 THEN "retry1000" ELSE "rejectFailed"
    ELSE IF o.status = 403
    THEN IF r > 0 THEN "retry2000" ELSE "rejectBlocked"
    ELSE IF o.status = 302 /\ rc < MAX_REDIRECTS /\ o.location
    THEN "redirect"
    ELSE IF rc >= MAX_REDIRECTS
    THEN "rejectRedirects"
    ELSE "resolve"

\* the Error each reject carries
ErrorOf(decision) ==
    CASE decision = "rejectFailed"    -> "Cloudscraper Request Failed"
      [] decision = "rejectBlocked"   -> "Cloudscraper Request Blocked by Cloudflare"
      [] decision = "rejectRedirects" -> "Too many redirects, aborting request."

\* new URL(response.headers.location): the origin names an absolute URL not
\* seen before
RedirectTarget(u) == u + 1

\* A rejection of the innermost call reaches the caller of the outermost call
\* only through resolve(promise) links (line 157).  Where a call was made by
\* resolve(await retryRequest(..)) (lines 133, 145) the rejection is thrown
\* inside the async callback: an unhandled rejection, and the promise of the
\* calling frame is never settled (chainSt = "lost").  Whether Node then only
\* warns or ends the process, the request gets no response from proxy.
Surfaces(ls) == \A i \in DOMAIN ls : ls[i] = "resolve"

\* a mutant: retryRequest calls makeCloudscraperRequest at once instead of
\* handing it to .then
IssuedBy_RetryAtOnce(d) ==
    IF d \in {"redirect", "retry1000", "retry2000"} THEN 1 ELSE 0

\* the cloudscraper.get calls the callback makes before it returns: the
\* redirect branch calls makeCloudscraperRequest (line 157), the retry
\* branches only set a timer (line 113)
IssuedBy(d) == IF d = "redirect" THEN 1 ELSE 0

\* proxy.js:206: makeCloudscraperRequest(config) with the default parameters;
\* the Promise executor calls cloudscraper.get at once
StartChain ==
    /\ chainSt' = "inflight"
    /\ retries' = DEFAULT_RETRIES
    /\ redirectCount' = 0
    /\ url' = 0
    /\ links' = <<>>
    /\ UNCHANGED <<attemptLog, waits, chainErr>>

\* the callback of the call in flight runs
CloudscraperCallback ==
    /\ chainSt = "inflight"
    /\ \E o \in ChainOutcomes :
        LET d == Callback(o, retries, redirectCount) IN
        /\ inflight' = inflight - 1 + IssuedBy(d)
        /\ attemptLog' = Append(attemptLog,
               [retries |-> retries, redirectCount |-> redirectCount, url |-> url,
                status |-> o.status, location |-> o.location, shape |-> o.shape])
        /\ CASE d \in {"retry1000", "retry2000"} ->
                  \* retryRequest(delay): setTimeout(resolve, delay)
                  /\ chainSt' = "waiting"
                  /\ waits' = Append(waits, IF d = "retry1000" THEN 1000 ELSE 2000)
                  /\ UNCHANGED <<retries, redirectCount, url, links, chainErr>>
             [] d = "redirect" ->
                  \* config.url = new URL(redirectUrl);
                  \* resolve(makeCloudscraperRequest(config, retries, redirectCount + 1))
                  /\ url' = RedirectTarget(url)
                  /\ redirectCount' = redirectCount + 1
                  /\ links' = Append(links, "resolve")
                  /\ chainSt' = "inflight"
                  /\ UNCHANGED <<retries, waits, chainErr>>
             [] d \in {"rejectFailed", "rejectBlocked", "rejectRedirects"} ->
                  /\ chainErr' = ErrorOf(d)
                  /\ chainSt' = IF Surfaces(links) THEN "rejected" ELSE "lost"
                  /\ UNCHANGED <<retries, redirectCount, url, links, waits>>
             [] d = "resolve" ->
                  \* resolve({ headers: response.headers, data: body })
                  /\ chainSt' = "resolved"
                  /\ UNCHANGED <<retries, redirectCount, url, links, waits, chainErr>>
    /\ UNCHANGED <<proxyVars, codecVars, schedVars, concVars, qualVars>>

\* a mutant: the retried call starts again from redirectCount 0
RetryTimer_ResetsRedirects ==
    /\ chainSt = "waiting"
    /\ retries' = retries - 1
    /\ redirectCount' = 0
    /\ links' = Append(links, "await")
    /\ chainSt' = "inflight"
    /\ inflight' = inflight + 1
    /\ UNCHANGED <<url, attemptLog, waits, chainErr>>
    /\ UNCHANGED <<proxyVars, codecVars, schedVars, concVars, qualVars>>

\* the timer of retryRequest fires:
\* .then(() => makeCloudscraperRequest(config, retries - 1, redirectCount))
RetryTimer ==
    /\ chainSt = "waiting"
    /\ retries' = retries - 1
    /\ links' = Append(links, "await")
    /\ chainSt' = "inflight"
    /\ inflight' = inflight + 1
    /\ UNCHANGED <<redirectCount, url, attemptLog, waits, chainErr>>
    /\ UNCHANGED <<proxyVars, codecVars, schedVars, concVars, qualVars>>

(***************************************************************************)
(* proxy (proxy.js:173-271)                                                *)
(***************************************************************************)
\* config.validateStatus (line 190): axios rejects when it is false
validateStatus(status) == status < 500

\* line 204; a Buffer has no status member
IsCloudflare(resp) ==
    resp.kind = "response" /\ (resp.status = 403 \/ resp.status = 503)

HSTS == "max-age=63072000; includeSubDomains; preload"

CSP == "default-src 'self'; img-src *; media-src *; script-src 'none'; object-src 'none';"

\* lines 216-227: the branch taken for the accept-encoding header
Negotiate(accept, data) ==
    IF Includes(accept, S_br)
    THEN [data |-> compressionMethods("br", data).val, encoding |-> "br",
          calls |-> <<"compressionMethods.br">>]
    ELSE IF Includes(accept, S_gzip)
    THEN [data |-> compressionMethods("gzip", data).val, encoding |-> "gzip",
          calls |-> <<"compressionMethods.gzip">>]
    ELSE IF Includes(accept, S_deflate)
    THEN [data |-> compressionMethods("deflate", data).val, encoding |-> "deflate",
          calls |-> <<"compressionMethods.deflate">>]
    ELSE [data |-> data, encoding |-> "identity", calls |-> <<>>]

\* a mutant: the headers of lines 246-250 are set before the HTTPS test of
\* line 239 and the HSTS header before it as well
Assemble_PolicyBeforeUpgrade(rq, data, sc1, copyOk, sc2) ==
    LET n == IF sc1 THEN Negotiate(rq.accept, data)
             ELSE [data |-> data, encoding |-> "", calls |-> <<>>]
        h1 == [NoHeaders EXCEPT !["content-encoding"] = n.encoding]
        t1 == <<"shouldCompress">> \o n.calls \o <<"copyHeaders">>
        h2 == [h1 EXCEPT !["content-security-policy"] = CSP,
                         !["x-proxy"] = "Cloudflare Worker",
                         !["access-control-allow-origin"] = "*",
                         !["strict-transport-security"] = HSTS,
                         !["content-encoding"] = "identity"]
    IN  IF ~copyOk
        THEN [events |-> t1 \o <<"redirect">>, headers |-> h1,
              sent |-> NoBuffer, chosen |-> n.encoding, pc |-> "done"]
        ELSE IF rq.proto # "https"
        THEN [events |-> t1 \o <<"redirect301">>, headers |-> h2,
              sent |-> NoBuffer, chosen |-> n.encoding, pc |-> "done"]
        ELSE IF sc2
        THEN [events |-> t1 \o <<"shouldCompress", "compress">>, headers |-> h2,
              sent |-> n.data, chosen |-> n.encoding, pc |-> "metadata"]
        ELSE [events |-> t1 \o <<"shouldCompress", "bypass">>, headers |-> h2,
              sent |-> n.data, chosen |-> n.encoding, pc |-> "done"]

\* lines 213-260, run without suspension once the decoded payload is known.
\* sc1, sc2: what shouldCompress answers at lines 215 and 256; copyOk: whether
\* copyHeaders returns (TRUE) or throws
Assemble(rq, data, sc1, copyOk, sc2) ==
    LET n == IF sc1 THEN Negotiate(rq.accept, data)
             ELSE [data |-> data, encoding |-> "", calls |-> <<>>]
        h1 == [NoHeaders EXCEPT !["content-encoding"] = n.encoding]
        t1 == <<"shouldCompress">> \o n.calls \o <<"copyHeaders">>
        h2 == [h1 EXCEPT !["content-security-policy"] = CSP,
                         !["x-proxy"] = "Cloudflare Worker",
                         !["access-control-allow-origin"] = "*",
                         !["content-encoding"] = "identity"]
    IN  IF ~copyOk
        THEN \* catch (line 261)
             [events |-> t1 \o <<"redirect">>, headers |-> h1,
              sent |-> NoBuffer, chosen |-> n.encoding, pc |-> "done"]
        ELSE IF rq.proto # "https"
        THEN \* lines 239-243
             [events |-> t1 \o <<"redirect301">>,
              headers |-> [h1 EXCEPT !["strict-transport-security"] = HSTS],
              sent |-> NoBuffer, chosen |-> n.encoding, pc |-> "done"]
        ELSE IF sc2
        THEN \* compress(req, res, decompressedData): not awaited
             [events |-> t1 \o <<"shouldCompress", "compress">>, headers |-> h2,
              sent |-> n.data, chosen |-> n.encoding, pc |-> "metadata"]
        ELSE [events |-> t1 \o <<"shouldCompress", "bypass">>, headers |-> h2,
              sent |-> n.data, chosen |-> n.encoding, pc |-> "done"]

\* the catch block (lines 261-270): redirect(req, res)
Catch(tr) ==
    /\ trace' = Append(tr, "redirect")
    /\ pc' = "done"
    /\ UNCHANGED <<resHeaders, sent, chosen>>

Finish(tr, a) ==
    /\ trace' = tr \o a.events
    /\ resHeaders' = a.headers
    /\ sent' = a.sent
    /\ chosen' = a.chosen
    /\ pc' = a.pc

AssembleStep(tr, data) ==
    \E sc1 \in BOOLEAN, copyOk \in BOOLEAN, sc2 \in BOOLEAN :
        Finish(tr, Assemble(req, data, sc1, copyOk, sc2))

\* a mutant: a rejected decompress is taken for the undecoded payload
AfterDecompress_Degrades(tr, r, data) ==
    IF r.ok THEN AssembleStep(tr, r.val) ELSE AssembleStep(tr, data)

\* lines 211-212 onward, once the promise r of decompress(data, ..) has settled
AfterDecompress(tr, r, data) ==
    IF r.ok THEN AssembleStep(tr, r.val) ELSE Catch(tr)

\* lines 209-211, with resp bound to originResponse
Proceed(resp, tr) ==
    IF resp.kind = "buffer"
    THEN \* headers is undefined: headers['content-encoding'] throws a TypeError
         Catch(tr)
    ELSE IF resp.encoding # ""
    THEN \* await decompress(data, contentEncoding)
         /\ trace' = Append(tr, "decompress")
         /\ pc' = "decompress"
         /\ UNCHANGED <<resHeaders, sent, chosen>>
    ELSE AssembleStep(tr, resp.data)

\* lines 203-207
AfterPrimary(resp) ==
    /\ originResponse' = resp
    /\ IF IsCloudflare(resp)
       THEN /\ trace' = Append(trace, "makeCloudscraperRequest")
            /\ pc' = "bypass"
            /\ StartChain
            /\ inflight' = inflight - 1 + 1
            /\ UNCHANGED <<resHeaders, sent, chosen>>
       ELSE /\ Proceed(resp, trace)
            /\ inflight' = inflight - 1
            /\ UNCHANGED chainVars

Init ==
    /\ req \in Requests
    /\ pc = "start"
    /\ primaryStatus = 0
    /\ originResponse = NoResponse
    /\ trace = <<>>
    /\ resHeaders = NoHeaders
    /\ sent = NoBuffer
    /\ chosen = ""
    /\ inflight = 0
    /\ chainSt = "idle"
    /\ retries = 0
    /\ redirectCount = 0
    /\ url = 0
    /\ links = <<>>
    /\ attemptLog = <<>>
    /\ waits = <<>>
    /\ chainErr = ""
    /\ SchedIdle
    /\ ConcIdle
    /\ QualIdle
    /\ cPc = "off"
    /\ cData = NoBuffer
    /\ cEnc = ""
    /\ cEncoded = Unset
    /\ cOut = Unset

\* lines 174-201: the primary fetch is issued
PrimaryDispatch ==
    /\ pc = "start"
    /\ pc' = "primary"
    /\ trace' = Append(trace, IF req.scheme = "http2:" THEN "makeHttp2Request"
                                                       ELSE "makeRequest")
    /\ inflight' = inflight + 1
    /\ UNCHANGED <<req, primaryStatus, originResponse, resHeaders, sent, chosen>>
    /\ UNCHANGED <<chainVars, codecVars, schedVars, concVars, qualVars>>

\* makeRequest (lines 86-88): the promise of axios(config) settles
AxiosSettles ==
    /\ pc = "primary"
    /\ req.scheme # "http2:"
    /\ \/ \* no response: connection failure or the 5000 ms timeout
          /\ primaryStatus' = 0
          /\ Catch(trace)
          /\ inflight' = inflight - 1
          /\ UNCHANGED <<originResponse, chainVars>>
       \/ \E s \in PrimaryStatuses :
          \E shape \in (IF s \in {200, 404} THEN OriginShapes ELSE {PlainShape}) :
            /\ primaryStatus' = s
            /\ IF validateStatus(s)
               THEN AfterPrimary(AxiosResponse(s, shape))
               ELSE /\ Catch(trace)
                    /\ inflight' = inflight - 1
                    /\ UNCHANGED <<originResponse, chainVars>>
    /\ UNCHANGED <<req, codecVars, schedVars, concVars, qualVars>>

\* makeHttp2Request (lines 57-79): the stream ends or fails
Http2Settles ==
    /\ pc = "primary"
    /\ req.scheme = "http2:"
    /\ \/ \* req.on('error', err => reject(err))
          /\ primaryStatus' = 0
          /\ Catch(trace)
          /\ inflight' = inflight - 1
          /\ UNCHANGED <<originResponse, chainVars>>
       \/ \* req.on('end', () => resolve(Buffer.concat(data)))
          \E s \in PrimaryStatuses :
          \E shape \in (IF s \in {200, 404} THEN OriginShapes ELSE {PlainShape}) :
            /\ primaryStatus' = s
            /\ AfterPrimary(Http2Buffer(shape))
    /\ UNCHANGED <<req, codecVars, schedVars, concVars, qualVars>>

\* line 206: await makeCloudscraperRequest(config) resumes
BypassSettles ==
    /\ pc = "bypass"
    /\ \/ /\ chainSt = "resolved"
          /\ LET resp == ScrapedResponse(attemptLog[Len(attemptLog)].shape) IN
             /\ originResponse' = resp
             /\ Proceed(resp, trace)
       \/ /\ chainSt = "rejected"
          /\ Catch(trace)
          /\ UNCHANGED originResponse
    /\ UNCHANGED <<req, primaryStatus, chainVars, codecVars, inflight, schedVars, concVars, qualVars>>

\* line 211: await decompress(data, contentEncoding) resumes
DecompressSettles ==
    /\ pc = "decompress"
    /\ AfterDecompress(trace, decompress(originResponse.data, originResponse.encoding),
                       originResponse.data)
    /\ UNCHANGED <<req, primaryStatus, originResponse, chainVars, codecVars, inflight, schedVars, concVars, qualVars>>

(***************************************************************************)
(* compress (compress.js:16-55)                                            *)
(***************************************************************************)
\* line 24: await sharp(input).metadata().  sharp reads an image only from
\* bytes that are not inside a transport container.
CompressMetadata ==
    /\ pc = "metadata"
    /\ \E m \in {"valid", "invalid", "throws"} :
        /\ (m # "throws") => sent.wrap = <<>>
        /\ IF m = "valid"
           THEN /\ pc' = "toBuffer"
                /\ UNCHANGED trace
           ELSE \* lines 26-29 and 51-54: redirect(req, res)
                /\ pc' = "done"
                /\ trace' = Append(trace, "redirect")
    /\ UNCHANGED <<req, primaryStatus, originResponse, resHeaders, sent, chosen>>
    /\ UNCHANGED <<chainVars, codecVars, inflight, schedVars, concVars, qualVars>>

\* lines 42-50: toBuffer resolves (sendImage) or rejects (handleSharpError)
CompressToBuffer ==
    /\ pc = "toBuffer"
    /\ \E ok \in BOOLEAN :
        trace' = Append(trace, IF ok THEN "sendImage" ELSE "redirect")
    /\ pc' = "done"
    /\ UNCHANGED <<req, primaryStatus, originResponse, resHeaders, sent, chosen>>
    /\ UNCHANGED <<chainVars, codecVars, inflight, schedVars, concVars, qualVars>>

Next ==
    \/ PrimaryDispatch
    \/ AxiosSettles
    \/ Http2Settles
    \/ CloudscraperCallback
    \/ RetryTimer
    \/ BypassSettles
    \/ DecompressSettles
    \/ CompressMetadata
    \/ CompressToBuffer

Spec == Init /\ [][Next]_vars

(***************************************************************************)
(* SpecCodec: the codec functions applied to bounded inputs.               *)
(***************************************************************************)
\* "" stands for a missing tag (undefined)
EncodingTags ==
    DecompressorKeys \cup InheritedFunctions \cup InheritedObjects
        \cup {"", "identity", "unknown-scheme", "GZIP", "compress"}

CodecIdleProxy ==
    /\ req = [proto |-> "https", scheme |-> "https:", accept |-> <<>>]
    /\ pc = "off"
    /\ primaryStatus = 0
    /\ originResponse = NoResponse
    /\ trace = <<>>
    /\ resHeaders = NoHeaders
    /\ sent = NoBuffer
    /\ chosen = ""
    /\ inflight = 0
    /\ chainSt = "idle"
    /\ retries = 0
    /\ redirectCount = 0
    /\ url = 0
    /\ links = <<>>
    /\ attemptLog = <<>>
    /\ waits = <<>>
    /\ chainErr = ""
    /\ SchedIdle
    /\ ConcIdle

InitCodec ==
    /\ CodecIdleProxy
    /\ QualIdle
    /\ cPc = "init"
    /\ cData \in Buffers
    /\ cEnc \in EncodingTags
    /\ cEncoded = Unset
    /\ cOut = Unset

\* encode(data, enc)
CodecEncode ==
    /\ cPc = "init"
    /\ cEncoded' = compressionMethods(cEnc, cData)
    /\ cPc' = "encoded"
    /\ UNCHANGED <<cData, cEnc, cOut, proxyVars, chainVars, inflight, schedVars, concVars, qualVars>>

\* decode(encode(data, enc), enc)
CodecDecodeEncoded ==
    /\ cPc = "encoded"
    /\ cOut' = IF cEncoded.ok THEN decompress(cEncoded.val, cEnc) ELSE cEncoded
    /\ cPc' = "roundtrip"
    /\ UNCHANGED <<cData, cEnc, cEncoded, proxyVars, chainVars, inflight, schedVars, concVars, qualVars>>

\* decode(data, enc)
CodecDecode ==
    /\ cPc = "init"
    /\ cOut' = decompress(cData, cEnc)
    /\ cPc' = "decoded"
    /\ UNCHANGED <<cData, cEnc, cEncoded, proxyVars, chainVars, inflight, schedVars, concVars, qualVars>>

NextCodec == CodecEncode \/ CodecDecodeEncoded \/ CodecDecode

SpecCodec == InitCodec /\ [][NextCodec]_vars

(***************************************************************************)
(* SpecSched: the limiter of makeRequest (proxy.js:81-88) on its own.      *)
(* Its contract: one FIFO queue of pending jobs; the head of the queue is  *)
(* released no sooner than minTime after the previous release.             *)
(***************************************************************************)
minTime == 2000

MaxJobs == 3       \* makeRequest calls
MaxTime == 6000    \* the clock stops here

\* how far the clock moves between two events, in ms
Ticks == {500, 1500}

OffForSched ==
    /\ CodecIdleProxy
    /\ QualIdle
    /\ cPc = "off"
    /\ cData = NoBuffer
    /\ cEnc = ""
    /\ cEncoded = Unset
    /\ cOut = Unset

InitSched ==
    /\ OffForSched
    /\ pc = "off"

\* the time at which the limiter releases a job that joins the queue q at time
\* t, after the releases ds: the head of the queue waits for minTime after the
\* last release, every other job for minTime after the job before it
StartTime(q, ds, t) ==
    LET head == IF ds = <<>> THEN t
                ELSE IF ds[Len(ds)].at + minTime > t THEN ds[Len(ds)].at + minTime
                ELSE t
    IN  head + Len(q) * minTime

\* the timer of the head of the queue has run out
ReleaseDue ==
    /\ queue # <<>>
    /\ IF dispatches = <<>> THEN TRUE
       ELSE now - dispatches[Len(dispatches)].at >= minTime

\* a mutant: the new job is put in front of the jobs already waiting
makeRequest_JumpsQueue ==
    /\ jobs < MaxJobs
    /\ StartTime(queue, dispatches, now) <= MaxTime
    /\ jobs' = jobs + 1
    /\ queue' = <<jobs + 1>> \o queue
    /\ UNCHANGED <<now, dispatches>>
    /\ UNCHANGED <<proxyVars, chainVars, codecVars, inflight, concVars, qualVars>>

\* a mutant: makeRequest calls axios(config) itself
makeRequest_Unscheduled ==
    /\ jobs < MaxJobs
    /\ jobs' = jobs + 1
    /\ dispatches' = Append(dispatches, [job |-> jobs + 1, at |-> now])
    /\ UNCHANGED <<now, queue>>
    /\ UNCHANGED <<proxyVars, chainVars, codecVars, inflight, concVars, qualVars>>

\* makeRequest(config): limiter.schedule(() => axios(config)) queues the job
\* (only jobs that start before the clock stops are followed)
makeRequest ==
    /\ jobs < MaxJobs
    /\ StartTime(queue, dispatches, now) <= MaxTime
    /\ jobs' = jobs + 1
    /\ queue' = Append(queue, jobs + 1)
    /\ UNCHANGED <<now, dispatches>>
    /\ UNCHANGED <<proxyVars, chainVars, codecVars, inflight, concVars, qualVars>>

\* the limiter releases the head of the queue: () => axios(config) starts
LimiterRelease ==
    /\ ReleaseDue
    /\ dispatches' = Append(dispatches, [job |-> Head(queue), at |-> now])
    /\ queue' = Tail(queue)
    /\ UNCHANGED <<now, jobs>>
    /\ UNCHANGED <<proxyVars, chainVars, codecVars, inflight, concVars, qualVars>>

\* time passes, up to the moment the timer of the head of the queue runs out:
\* that timer fires before the clock moves on
Tick ==
    /\ ~ReleaseDue
    /\ \E d \in Ticks :
           /\ now + d <= MaxTime
           /\ IF queue = <<>> THEN TRUE
              ELSE now + d <= dispatches[Len(dispatches)].at + minTime
           /\ now' = now + d
    /\ UNCHANGED <<queue, dispatches, jobs>>
    /\ UNCHANGED <<proxyVars, chainVars, codecVars, inflight, concVars, qualVars>>

NextSched == makeRequest \/ LimiterRelease \/ Tick

SpecSched == InitSched /\ [][NextSched]_vars

\* timers fire and time passes
SpecSchedFair == SpecSched /\ WF_vars(LimiterRelease) /\ WF_vars(Tick)

(***************************************************************************)
(* SpecConc: the bypass chains of the requests in Reqs, interleaved.       *)
(* Each proxy call builds its own config (proxy.js:173-191); retries and   *)
(* redirectCount are parameters of makeCloudscraperRequest (line 91).      *)
(***************************************************************************)
ConcOutcomes == {o \in ChainOutcomes : o.shape = PlainShape}

InitConc ==
    /\ OffForSched
    /\ pc = "off"

\* a mutant: config is one object shared by all proxy calls
Own_SharedConfig(c, r, new) ==
    [q \in Reqs |-> IF q = r THEN new ELSE [c[q] EXCEPT !.url = new.url]]

\* the call of request r writes its own parameters and its own config
Own(c, r, new) == [c EXCEPT ![r] = new]

\* proxy.js:206 for request r
ConcStart(r) ==
    /\ conc[r].st = "idle"
    /\ conc' = Own(conc, r, [conc[r] EXCEPT !.st = "inflight",
                                             !.retries = DEFAULT_RETRIES,
                                             !.redirectCount = 0])
    /\ actor' = r
    /\ UNCHANGED <<proxyVars, chainVars, codecVars, inflight, schedVars, qualVars>>

\* the cloudscraper.get callback of request r runs
ConcCallback(r) ==
    /\ conc[r].st = "inflight"
    /\ \E o \in ConcOutcomes :
        LET d == Callback(o, conc[r].retries, conc[r].redirectCount) IN
        conc' = Own(conc, r,
            CASE d \in {"retry1000", "retry2000"} ->
                     [conc[r] EXCEPT !.st = "waiting"]
              [] d = "redirect" ->
                     [conc[r] EXCEPT !.url = RedirectTarget(@),
                                     !.redirectCount = @ + 1]
              [] d \in {"rejectFailed", "rejectBlocked", "rejectRedirects"} ->
                     [conc[r] EXCEPT !.st = "rejected"]
              [] d = "resolve" ->
                     [conc[r] EXCEPT !.st = "resolved"])
    /\ actor' = r
    /\ UNCHANGED <<proxyVars, chainVars, codecVars, inflight, schedVars, qualVars>>

\* the retryRequest timer of request r fires
ConcTimer(r) ==
    /\ conc[r].st = "waiting"
    /\ conc' = Own(conc, r, [conc[r] EXCEPT !.st = "inflight", !.retries = @ - 1])
    /\ actor' = r
    /\ UNCHANGED <<proxyVars, chainVars, codecVars, inflight, schedVars, qualVars>>

NextConc ==
    \/ \E r \in Reqs : ConcStart(r)
    \/ \E r \in Reqs : ConcCallback(r)
    \/ \E r \in Reqs : ConcTimer(r)

SpecConc == InitConc /\ [][NextConc]_vars

(***************************************************************************)
(* SpecQuality: getCompressionParams (compress.js:57-63) and the            *)
(* x-bytes-saved header of sendImage (compress.js:161-170) on bounded       *)
(* inputs.                                                                  *)
(***************************************************************************)
MaxChars == 3      \* longest value of the quality parameter, in characters
MaxSize == 3       \* largest originSize and compressed size, in bytes

Digits == {"0", "1", "9"}

QualityChars == Digits \cup {"-", "a", "."}

\* req.params.quality is missing: parseInt converts undefined to 'undefined'
Absent == <<"undefined">>

QualityParams ==
    {Absent} \cup UNION {[1..n -> QualityChars] : n \in 0..MaxChars}

DigitVal(c) == CASE c = "0" -> 0 [] c = "1" -> 1 [] c = "9" -> 9

NaN == [nan |-> TRUE, n |-> 0]

Num(v) == [nan |-> FALSE, n |-> v]

\* how many characters at the start of s are decimal digits
RECURSIVE LeadDigits(_)
LeadDigits(s) ==
    IF s = <<>> \/ Head(s) \notin Digits THEN 0 ELSE 1 + LeadDigits(Tail(s))

\* the number written by the first k characters of s
RECURSIVE ValueOf(_, _)
ValueOf(s, k) == IF k = 0 THEN 0 ELSE 10 * ValueOf(s, k - 1) + DigitVal(s[k])

\* parseInt(string, 10): an optional sign, then the longest run of digits;
\* what follows is ignored; NaN when there is no digit
parseInt(p) ==
    LET neg == p # <<>> /\ Head(p) = "-"
        body == IF neg THEN Tail(p) ELSE p
        k == LeadDigits(body)
    IN  IF k = 0 THEN NaN
        ELSE Num(IF neg THEN 0 - ValueOf(body, k) ELSE ValueOf(body, k))

\* a || b on numbers: NaN and 0 are falsy
OrElse(a, b) == IF a.nan \/ a.n = 0 THEN b ELSE a.n

MathMax(a, b) == IF a > b THEN a ELSE b

MathMin(a, b) == IF a < b THEN a ELSE b

\* a mutant: only a missing or unreadable value gets the default (??)
getCompressionParams_NullishDefault(quality) ==
    LET v == parseInt(quality) IN
    MathMin(MathMax(IF v.nan THEN 75 ELSE v.n, 10), 100)

\* compressionQuality of getCompressionParams (line 60)
getCompressionParams(quality) ==
    MathMin(MathMax(OrElse(parseInt(quality), 75), 10), 100)

\* sendImage line 168: Math.max(originSize - compressedSize, 0)
BytesSaved(originSize, compressedSize) == MathMax(originSize - compressedSize, 0)

InitQuality ==
    /\ CodecIdleProxy
    /\ cPc = "off"
    /\ cData = NoBuffer
    /\ cEnc = ""
    /\ cEncoded = Unset
    /\ cOut = Unset
    /\ pc = "off"
    /\ qPc = "init"
    /\ qParam \in QualityParams
    /\ qOrigin \in 0..MaxSize
    /\ qQuality = 0
    /\ qCompressed = 0
    /\ qSaved = 0

\* compress line 23
QualityParams_Read ==
    /\ qPc = "init"
    /\ qQuality' = getCompressionParams(qParam)
    /\ qPc' = "params"
    /\ UNCHANGED <<qParam, qOrigin, qCompressed, qSaved>>
    /\ UNCHANGED <<proxyVars, chainVars, codecVars, inflight, schedVars, concVars>>

\* compress lines 45-47: sendImage(.., req.params.originSize || 0, info.size)
QualitySendImage ==
    /\ qPc = "params"
    /\ \E size \in 0..MaxSize :
           /\ qCompressed' = size
           /\ qSaved' = BytesSaved(qOrigin, size)
    /\ qPc' = "sent"
    /\ UNCHANGED <<qParam, qOrigin, qQuality>>
    /\ UNCHANGED <<proxyVars, chainVars, codecVars, inflight, schedVars, concVars>>

NextQuality == QualityParams_Read \/ QualitySendImage

SpecQuality == InitQuality /\ [][NextQuality]_vars

(***************************************************************************)
(* Properties.                                                             *)
(***************************************************************************)
Has(seq, e) == \E i \in DOMAIN seq : seq[i] = e

Last(seq) == seq[Len(seq)]

ChainDone == chainSt \in {"resolved", "rejected", "lost"}

\* the handler is past the awaits of the primary fetch and of the bypass chain
PastFetch == pc \notin {"off", "start", "primary", "bypass"}

PastDecode == PastFetch /\ pc # "decompress"

AllErrors == attemptLog # <<>> /\ \A i \in DOMAIN attemptLog : attemptLog[i].status = 0

Min(a, b) == IF a < b THEN a ELSE b

\* C1 as stated: when every attempt of a bypass chain started with the default
\* budget N = 3 fails at transport level, the chain ends after exactly N
\* attempts, N - 1 of them followed by a 1000 ms wait, with the error
\* 'Cloudscraper Request Failed'.
C1_ExhaustedAfterNAttempts ==
    (AllErrors /\ ChainDone) =>
        /\ Len(attemptLog) = DEFAULT_RETRIES
        /\ waits = [i \in 1..(DEFAULT_RETRIES - 1) |-> 1000]
        /\ chainErr = "Cloudscraper Request Failed"

\* C1 amended: when every attempt fails at transport level, attempt i is made
\* with budget N - (i - 1); attempts 1..N are each followed by a retry after
\* 1000 ms and the failure of attempt N + 1 rejects that call with
\* 'Cloudscraper Request Failed': exactly N + 1 = 4 attempts.  (The retries
\* were awaited inside the callbacks, so the rejection stays in the chain.)
C1_ExhaustedAfterRetries ==
    AllErrors =>
        /\ Len(attemptLog) <= DEFAULT_RETRIES + 1
        /\ \A i \in DOMAIN attemptLog :
               attemptLog[i].retries = DEFAULT_RETRIES - (i - 1)
        /\ waits = [i \in 1..Min(Len(attemptLog), DEFAULT_RETRIES) |-> 1000]
        /\ Len(attemptLog) <= DEFAULT_RETRIES => chainSt \in {"waiting", "inflight"}
        /\ Len(attemptLog) = DEFAULT_RETRIES + 1 =>
               /\ chainErr = "Cloudscraper Request Failed"
               /\ chainSt = "lost"

C1_Witness ==
    /\ AllErrors
    /\ Len(attemptLog) = DEFAULT_RETRIES + 1
    /\ chainErr = "Cloudscraper Request Failed"
    /\ waits = <<1000, 1000, 1000>>

\* C2: redirect-count never decreases within a chain; the chain fails with
\* 'Too many redirects' if and only if its last response is a 302 with a
\* Location header received at redirect-count = MAX_REDIRECTS; a last response
\* of any other status (neither error nor 403) ends the chain resolved,
\* whatever the redirect-count.
C2_RedirectLoopIffSixthRedirect ==
    /\ \A i, j \in DOMAIN attemptLog :
           i <= j => attemptLog[i].redirectCount <= attemptLog[j].redirectCount
    /\ ChainDone =>
        LET last == Last(attemptLog) IN
        /\ (chainErr = "Too many redirects, aborting request.")
               <=> (last.status = 302 /\ last.location
                        /\ last.redirectCount = MAX_REDIRECTS)
        /\ (last.status \notin {0, 403} /\ ~(last.status = 302 /\ last.location))
               => chainSt = "resolved"

\* C3: once the primary fetch has completed with origin status 403 or 503,
\* proxy has invoked makeCloudscraperRequest.
C3_BlockedStatusInvokesBypass ==
    (pc \notin {"off", "start", "primary"} /\ primaryStatus \in {403, 503})
        => Has(trace, "makeCloudscraperRequest")

\* C4: for a request whose x-forwarded-proto is not 'https', proxy makes no
\* fetch attempt, no decode, no encode and no compression decision, and the
\* finished response is the 301 with Strict-Transport-Security set.
C4_InsecureRequestOnlyRedirected ==
    req.proto # "https" =>
        /\ \A i \in DOMAIN trace :
               trace[i] \notin {"makeRequest", "makeHttp2Request",
                                "makeCloudscraperRequest", "decompress",
                                "compressionMethods.br", "compressionMethods.gzip",
                                "compressionMethods.deflate", "shouldCompress"}
        /\ pc = "done" =>
               /\ Last(trace) = "redirect301"
               /\ resHeaders["strict-transport-security"] # ""

\* C5: a request is never left without a response (when the handler can take
\* no further step it has finished), and when its bypass chain failed or its
\* primary fetch was rejected the finished handler has called redirect(req, res).
C5_FailureEndsInFallback ==
    /\ (pc # "off" /\ ~ENABLED Next) => pc = "done"
    /\ (pc = "done" /\ (chainErr # "" \/ ~validateStatus(primaryStatus)))
           => Has(trace, "redirect")

ScenarioA ==
    /\ Len(attemptLog) >= 3
    /\ attemptLog[1].status = 403
    /\ attemptLog[2].status = 403
    /\ attemptLog[3].status = 200

ScenarioB ==
    /\ Len(attemptLog) >= 6
    /\ \A i \in 1..6 : attemptLog[i].status = 302 /\ attemptLog[i].location

\* C7 (scenario B): a chain answered six times by a 302 with Location follows
\* five redirects, at redirect-count 0..4, and rejects with 'Too many
\* redirects' on the sixth 302; there is no seventh attempt.
C7_ScenarioB ==
    ScenarioB =>
        /\ Len(attemptLog) = 6
        /\ \A i \in 1..6 : attemptLog[i].redirectCount = i - 1
        /\ \A i \in 1..6 : attemptLog[i].url = i - 1
        /\ links = <<"resolve", "resolve", "resolve", "resolve", "resolve">>
        /\ chainSt = "rejected"
        /\ chainErr = "Too many redirects, aborting request."

C7_Witness ==
    /\ ScenarioB
    /\ redirectCount = MAX_REDIRECTS
    /\ pc = "done"
    /\ Last(trace) = "redirect"

\* the body of originResponse is not what its supported content-encoding says
DecodeFailed ==
    /\ originResponse.kind = "response"
    /\ originResponse.encoding \in DecompressorKeys
    /\ ~decompress(originResponse.data, originResponse.encoding).ok

\* C8 as stated: after a decompress routine has rejected, proxy goes on to the
\* compression decision (with the payload taken as identity-encoded).
C8_DecodeErrorContinues ==
    (DecodeFailed /\ PastDecode) => Has(trace, "shouldCompress")

\* C8 amended: a rejected decompress ends the request in redirect(req, res),
\* with no compression decision and no sender; only a content-encoding that
\* is no key of decompressors is taken as identity, and then proxy goes on to
\* the compression decision with the payload unchanged.
C8_DecodeErrorFallsBack ==
    /\ (DecodeFailed /\ PastDecode) =>
           /\ pc = "done"
           /\ Last(trace) = "redirect"
           /\ ~Has(trace, "shouldCompress")
           /\ sent = NoBuffer
    /\ (originResponse.encoding = "unknown-scheme" /\ PastDecode) =>
           /\ Has(trace, "shouldCompress")
           /\ (Has(trace, "bypass") /\ ~Has(trace, "compressionMethods.gzip")
                   /\ ~Has(trace, "compressionMethods.deflate")
                   /\ ~Has(trace, "compressionMethods.br"))
                  => sent = originResponse.data

C8_Witness ==
    /\ DecodeFailed
    /\ pc = "done"
    /\ Has(trace, "decompress")
    /\ Last(trace) = "redirect"

\* C9: for an encoding tag that is none of gzip, br, deflate, lzma, lzma2,
\* zstd (a missing tag included), decompress fulfils with its input.
C9_UnknownTagReturnsInput ==
    (cPc = "decoded" /\ cEnc \notin DecompressorKeys) => cOut = Fulfilled(cData)

\* C10 as stated: decode(encode(data, enc), enc) = data for each of gzip,
\* deflate, br, lzma, lzma2, zstd.
C10_RoundTripAllSchemes ==
    (cPc = "roundtrip" /\ cEnc \in DecompressorKeys) => cOut = Fulfilled(cData)

\* C10 amended: decode(encode(data, enc), enc) = data for each scheme the
\* code can encode: gzip, deflate, br.  (compressionMethods has no lzma,
\* lzma2 or zstd entry.)
C10_RoundTripEncodable ==
    (cPc = "roundtrip" /\ cEnc \in CompressionKeys) =>
        /\ cEncoded.ok
        /\ cEncoded.val # cData
        /\ cOut = Fulfilled(cData)

C10_Witness ==
    /\ cPc = "roundtrip"
    /\ cEnc = "deflate"
    /\ Len(cData.bytes) = MaxLen
    /\ cOut = Fulfilled(cData)

\* what the client accepts (RFC 9110, 12.5.3): the names its accept-encoding
\* header lists, those given the weight q=0 excepted
ClientAccepts(h, e) ==
    \E i \in 0..(Len(h) - Len(e)) :
        /\ SubSeq(h, i + 1, i + Len(e)) = e
        /\ SubSeq(h, i + Len(e) + 1, Min(Len(h), i + Len(e) + Len(S_q0))) # S_q0

FirstAccepted(h) ==
    IF ClientAccepts(h, S_br) THEN "br"
    ELSE IF ClientAccepts(h, S_gzip) THEN "gzip"
    ELSE IF ClientAccepts(h, S_deflate) THEN "deflate"
    ELSE "identity"

\* the transport-decoded payload of originResponse (line 211)
Decoded ==
    IF originResponse.encoding = "" THEN originResponse.data
    ELSE decompress(originResponse.data, originResponse.encoding).val

SenderInvoked == Has(trace, "compress") \/ Has(trace, "bypass")

\* C11: when the negotiation of lines 216-227 has run, the encoding it chose
\* is the first of br, gzip, deflate that the client accepts, or identity if
\* the client accepts none, and the payload is the decoded payload compressed
\* with exactly that scheme (unchanged for identity).
C11_FirstAcceptedChosen ==
    chosen # "" =>
        /\ chosen = FirstAccepted(req.accept)
        /\ SenderInvoked =>
               sent = IF chosen = "identity" THEN Decoded ELSE Wrap(chosen, Decoded)

\* C13: on every response handed to the compress or bypass sender, the
\* Content-Encoding header names the encoding applied to the payload: br, gzip
\* or deflate when it is transport-compressed, identity only when it is not.
C13_HeaderNamesAppliedEncoding ==
    SenderInvoked =>
        resHeaders["content-encoding"] =
            IF sent.wrap = <<>> THEN "identity" ELSE Head(sent.wrap)

\* C14: when the HTTP/2 stream has ended normally, proxy processes the result
\* like an HTTP/1.1 response (decode, header assembly, sender): it reaches
\* copyHeaders and does not end in redirect(req, res) before that.
C14_Http2ResponseProcessed ==
    (req.scheme = "http2:" /\ originResponse.kind = "buffer" /\ pc = "done")
        => Has(trace, "copyHeaders")

\* C15 as stated: a transport error (or timeout) of the primary fetch is
\* retried by the bypass state machine before the request can reach the
\* fallback.
C15_PrimaryErrorRetried ==
    (primaryStatus = 0 /\ pc \notin {"off", "start", "primary"}) => chainSt # "idle"

\* C15 amended: a transport error of the primary fetch is not retried, the
\* request goes to redirect(req, res) at once; a transport error of a bypass
\* attempt made with attempts-remaining > 0 is retried after 1000 ms with the
\* same URL and redirect-count and one attempt less.
C15_OnlyBypassErrorsRetried ==
    /\ (primaryStatus = 0 /\ pc \notin {"off", "start", "primary"}) =>
           /\ pc = "done"
           /\ Len(trace) = 2 /\ trace[2] = "redirect"
           /\ chainSt = "idle"
           /\ attemptLog = <<>>
    /\ \A i \in DOMAIN attemptLog :
           LET a == attemptLog[i]
               k == DEFAULT_RETRIES - a.retries + 1
           IN  (a.status = 0 /\ a.retries > 0) =>
                   /\ Len(waits) >= k /\ waits[k] = 1000
                   /\ IF i = Len(attemptLog)
                      THEN chainSt \in {"waiting", "inflight"}
                      ELSE /\ attemptLog[i + 1].retries = a.retries - 1
                           /\ attemptLog[i + 1].url = a.url
                           /\ attemptLog[i + 1].redirectCount = a.redirectCount

C15_Witness ==
    /\ pc = "done"
    /\ primaryStatus = 0
    /\ trace = <<"makeRequest", "redirect">>
    /\ inflight = 0

\* the attempt a was answered by a redirect that the code follows
IsFollowed(a) == a.status = 302 /\ a.location /\ a.redirectCount < MAX_REDIRECTS

\* the attempt a was answered by a failure that the code retries
IsRetried(a) == a.status \in {0, 403} /\ a.retries > 0

\* the parameters b of the attempt made after attempt a
StepFrame(a, b) ==
    /\ IsFollowed(a) => /\ b.redirectCount = a.redirectCount + 1
                        /\ b.url = RedirectTarget(a.url)
                        /\ b.url # a.url
                        /\ b.retries = a.retries
    /\ IsRetried(a) => /\ b.retries = a.retries - 1
                       /\ b.redirectCount = a.redirectCount
                       /\ b.url = a.url

\* C16: following a redirect adds exactly one to redirect-count, replaces the
\* URL by the Location target and leaves attempts-remaining alone; a retry
\* takes exactly one from attempts-remaining and leaves redirect-count and the
\* URL alone.
C16_CountersIndependent ==
    /\ \A i \in DOMAIN attemptLog :
           i < Len(attemptLog) => StepFrame(attemptLog[i], attemptLog[i + 1])
    /\ (chainSt = "inflight" /\ attemptLog # <<>>) =>
           StepFrame(Last(attemptLog),
                     [retries |-> retries, redirectCount |-> redirectCount, url |-> url])

C16_Witness ==
    /\ Len(attemptLog) = 4
    /\ IsFollowed(attemptLog[1])
    /\ IsRetried(attemptLog[2])
    /\ IsFollowed(attemptLog[3])
    /\ attemptLog[4].redirectCount = 2
    /\ attemptLog[4].retries = DEFAULT_RETRIES - 1

\* C17: transport failures and 403 answers use one budget: whatever their
\* order, each one seen with attempts-remaining > 0 is followed by its own
\* wait (1000 ms, 2000 ms) and an attempt with one less; the first one seen
\* with attempts-remaining = 0 makes the chain fail, with
\* 'Cloudscraper Request Blocked by Cloudflare' for a 403 and with
\* 'Cloudscraper Request Failed' for a transport failure.
C17_SharedRetryBudget ==
    /\ \A i \in DOMAIN attemptLog :
           LET a == attemptLog[i]
               k == DEFAULT_RETRIES - a.retries + 1
           IN  a.status \in {0, 403} =>
                   IF a.retries > 0
                   THEN /\ Len(waits) >= k
                        /\ waits[k] = IF a.status = 0 THEN 1000 ELSE 2000
                        /\ i < Len(attemptLog) =>
                               attemptLog[i + 1].retries = a.retries - 1
                        /\ i = Len(attemptLog) => chainSt \in {"waiting", "inflight"}
                   ELSE /\ i = Len(attemptLog)
                        /\ chainSt = "rejected"
                        /\ chainErr = IF a.status = 0
                                      THEN "Cloudscraper Request Failed"
                                      ELSE "Cloudscraper Request Blocked by Cloudflare"
    /\ Len(waits) = Cardinality({i \in DOMAIN attemptLog : IsRetried(attemptLog[i])})
    /\ chainErr \in {"Cloudscraper Request Failed",
                     "Cloudscraper Request Blocked by Cloudflare"} =>
           /\ Last(attemptLog).retries = 0
           /\ Last(attemptLog).status \in {0, 403}

\* C18: at most one fetch of the request is in flight at any moment; while a
\* backoff timer runs none is, and each retried attempt was started by its
\* timer: there are as many awaited calls as timers that have fired.
C18_AttemptsSequential ==
    /\ inflight \in {0, 1}
    /\ inflight = 1 <=> (pc = "primary" \/ chainSt = "inflight")
    /\ chainSt = "waiting" => inflight = 0
    /\ Len(SelectSeq(links, LAMBDA l : l = "await"))
           = Len(waits) - (IF chainSt = "waiting" THEN 1 ELSE 0)

C18_Witness ==
    /\ chainSt = "waiting"
    /\ Len(waits) = 2
    /\ redirectCount = 1
    /\ inflight = 0

\* C20: the payload given to the chosen sender is the transport-decoded
\* payload, with no transport encoding applied again, and exactly one of the
\* two senders is invoked.
C20_SenderGetsDecodedPayload ==
    SenderInvoked =>
        /\ sent = Decoded
        /\ ~(Has(trace, "compress") /\ Has(trace, "bypass"))

\* C12: any two jobs released by the limiter start at least minTime = 2000 ms
\* apart, and every job that started had been handed to limiter.schedule.
C12_DispatchesSpaced ==
    /\ \A i, j \in DOMAIN dispatches :
           i < j => dispatches[j].at - dispatches[i].at >= 2000
    /\ Len(dispatches) + Len(queue) = jobs

C12_Witness ==
    /\ Len(dispatches) = 3
    /\ dispatches[2].at - dispatches[1].at = 2000
    /\ dispatches[3].at - dispatches[2].at > 2000

\* C19: with several requests in progress, the retry state of a request
\* (attempts-remaining, redirect-count, URL) changes only in a step of that
\* request's own attempts.
C19_RetryStateIsolated ==
    [][\A r \in Reqs : conc'[r] # conc[r] => actor' = r]_vars

C19_Witness ==
    /\ conc[1].st = "waiting"
    /\ conc[1].retries = 1
    /\ conc[1].redirectCount = 1
    /\ conc[2].st = "inflight"
    /\ conc[2].retries = DEFAULT_RETRIES
    /\ conc[2].redirectCount = 3
    /\ actor = 2

\* the headers of lines 246-250 as proxy sets them
PolicyHeaders(h) ==
    /\ h["content-security-policy"] = CSP
    /\ h["x-proxy"] = "Cloudflare Worker"
    /\ h["access-control-allow-origin"] = "*"

NoPolicyHeaders(h) ==
    /\ h["content-security-policy"] = ""
    /\ h["x-proxy"] = ""
    /\ h["access-control-allow-origin"] = ""

Issued == Len(attemptLog) + (IF chainSt = "inflight" THEN 1 ELSE 0)

\* C23: every bypass chain whose attempts all complete ends as Succeeded or
\* Failed (its promise is settled, never left pending), and it never issues
\* more than 9 fetch attempts.
C23_ChainEndsWithinNine ==
    /\ Issued <= 9
    /\ (chainSt \notin {"idle", "inflight", "waiting"}) =>
           chainSt \in {"resolved", "rejected"}

\* C24: at the start of every attempt of a chain started with the defaults,
\* attempts-remaining is within 0..3 and redirect-count within 0..5;
\* attempts-remaining is never negative and redirect-count never above
\* MAX_REDIRECTS.
C24_CountersInRange ==
    /\ \A i \in DOMAIN attemptLog :
           /\ attemptLog[i].retries \in 0..3
           /\ attemptLog[i].redirectCount \in 0..5
    /\ chainSt # "idle" =>
           /\ retries \in 0..DEFAULT_RETRIES
           /\ redirectCount \in 0..MAX_REDIRECTS

C24_Witness ==
    /\ chainSt = "inflight"
    /\ retries = 0
    /\ redirectCount = 5
    /\ Len(attemptLog) = 8

\* the terminal response actions of a request, as they appear in trace
TerminalActions == {"redirect301", "bypass", "sendImage", "redirect"}

Terminals == Cardinality({i \in DOMAIN trace : trace[i] \in TerminalActions})

\* C25: a request handled by proxy gets exactly one terminal response action
\* (the 301 upgrade, a sender finishing the response, or the fallback):
\* never two, and one once the handling of the request can go no further.
C25_ExactlyOneTerminalAction ==
    /\ Terminals <= 1
    /\ (pc = "done") => Terminals = 1
    /\ (pc \notin {"off", "start"} /\ ~ENABLED Next) => Terminals = 1

Released(j) == \E i \in DOMAIN dispatches : dispatches[i].job = j

\* C21: the limiter releases jobs in the order in which they were scheduled
\* (the i-th release is the i-th scheduled job, the waiting jobs are the later
\* ones in order, none is dropped), and every scheduled job is eventually
\* released.
C21_FifoAndEventualRelease ==
    /\ [](/\ \A i \in DOMAIN dispatches : dispatches[i].job = i
          /\ \A i \in DOMAIN queue : queue[i] = Len(dispatches) + i
          /\ Len(dispatches) + Len(queue) = jobs)
    /\ \A j \in 1..MaxJobs : (jobs >= j) ~> Released(j)

C21_Witness ==
    /\ jobs = 3
    /\ queue = <<>>
    /\ Len(dispatches) = 3
    /\ dispatches[1].at = 0
    /\ dispatches[2].at = 2000
    /\ dispatches[3].at = 4000

\* the value has no digit in it: it is not a number however it is read
NonNumeric(p) == \A i \in DOMAIN p : p[i] \notin Digits

\* the value is an integer written in digits, with an optional sign
IntegerLiteral(p) ==
    LET body == IF p # <<>> /\ Head(p) = "-" THEN Tail(p) ELSE p
    IN  body # <<>> /\ \A i \in DOMAIN body : body[i] \in Digits

\* the integer that an IntegerLiteral writes
RECURSIVE Magnitude(_)
Magnitude(d) ==
    IF d = <<>> THEN 0
    ELSE 10 * Magnitude(SubSeq(d, 1, Len(d) - 1)) + DigitVal(d[Len(d)])

LiteralValue(p) ==
    IF Head(p) = "-" THEN 0 - Magnitude(Tail(p)) ELSE Magnitude(p)

====
